---------------------------- MODULE Spec2Model ----------------------------
(***************************************************************************)
(* BusNav server API (src/unnamed/part_000): the Hono request handlers,    *)
(* the Token Verifier verifyAuth, the identity provider they call and the  *)
(* key-value Record Store (kv_store.tsx) they read and write.              *)
(*                                                                         *)
(* A request is a process: it advances one await at a time, so requests    *)
(* interleave exactly where the handlers yield (a provider call, a store   *)
(* call).  Strings are sequences of one-character strings, so that the     *)
(* template literals that build keys, startsWith and split are computed    *)
(* and not assumed.  JSON values are tagged records.                       *)
(***************************************************************************)
EXTENDS Integers, Sequences, FiniteSets, TLC

VARIABLES
  reqs,        \* request id -> the handler's position, locals and response
  kv,          \* the Record Store: key -> value, defined on the keys ever set
  identities,  \* the identity provider's identities
  revoked,     \* tokens the identity provider no longer accepts
  now,         \* the wall clock in ms (Date.now(), new Date())
  before,      \* history: <<q, r>> when q had responded before r arrived
  browser      \* the browser module utils/supabase/client.ts and its calls

vars == <<reqs, kv, identities, revoked, now, before, browser>>

-----------------------------------------------------------------------------
(* Bounds *)

MaxReqs == 3      \* requests per behaviour
MaxConcurrent == 2 \* requests per behaviour of the specification of all handlers
MaxTicks == 1     \* clock ticks per behaviour
MaxCalls == 3     \* calls of the browser module's functions per behaviour

Req == 1..MaxReqs

-----------------------------------------------------------------------------
(* JSON / JavaScript values *)

Undef == [t |-> "undefined"]
Null == [t |-> "null"]
\* a number, held as twice its value so that halves (2.5) are numbers too
NumH(h) == [t |-> "number", h |-> h]
Num(n) == NumH(2 * n)
NaN == [t |-> "nan"]
StrV(s) == [t |-> "string", s |-> s]
Obj(f) == [t |-> "object", f |-> f]
\* a request body that is not JSON
Malformed == [t |-> "malformed"]

\* a presence test that takes every number, 0 included, as present
TruthyExceptZero(v) ==
  CASE v.t = "undefined" -> FALSE
    [] v.t = "null" -> FALSE
    [] v.t = "nan" -> FALSE
    [] v.t = "number" -> TRUE
    [] v.t = "string" -> v.s # <<>>
    [] OTHER -> TRUE

\* !v is FALSE: undefined, null, 0, NaN and "" are falsy
Truthy(v) ==
  CASE v.t = "undefined" -> FALSE
    [] v.t = "null" -> FALSE
    [] v.t = "nan" -> FALSE
    [] v.t = "number" -> v.h # 0
    [] v.t = "string" -> v.s # <<>>
    [] OTHER -> TRUE

\* a || b
OrElse(a, b) == IF Truthy(a) THEN a ELSE b

\* const { name } = body
Field(body, name) ==
  IF body.t = "object" /\ name \in DOMAIN body.f THEN body.f[name] ELSE Undef

Digits == <<"0", "1", "2", "3", "4", "5", "6", "7", "8", "9">>

IsDigit(c) == \E i \in 1..10 : Digits[i] = c

DigitVal(c) == (CHOOSE i \in 1..10 : Digits[i] = c) - 1

RECURSIVE Decimal(_)
\* String(n) of a non-negative integer
Decimal(n) ==
  IF n < 10 THEN <<Digits[n + 1]>>
  ELSE Decimal(n \div 10) \o <<Digits[(n % 10) + 1]>>

RECURSIVE ParseDecimal(_)
ParseDecimal(s) ==
  IF s = <<>> THEN 0
  ELSE 10 * ParseDecimal(SubSeq(s, 1, Len(s) - 1)) + DigitVal(s[Len(s)])

\* `${v}` in a template literal
TemplateString(v) ==
  CASE v.t = "string" -> v.s
    [] v.t = "number" ->
         IF v.h % 2 = 0 THEN Decimal(v.h \div 2)
         ELSE Decimal(v.h \div 2) \o <<".", "5">>
    [] v.t = "null" -> <<"n", "u", "l", "l">>
    [] v.t = "nan" -> <<"N", "a", "N">>
    [] OTHER -> <<"u", "n", "d", "e", "f", "i", "n", "e", "d">>

\* the number a relational operator compares: a numeric string converts, any
\* other string is NaN
ToNumber(v) ==
  CASE v.t = "number" -> v
    [] v.t = "string" ->
         IF v.s = <<>> THEN NumH(0)
         ELSE IF \A i \in 1..Len(v.s) : IsDigit(v.s[i])
              THEN Num(ParseDecimal(v.s))
              ELSE NaN
    [] v.t = "null" -> NumH(0)
    [] OTHER -> NaN

\* v < n and v > n for an integer n: FALSE whenever v converts to NaN
Less(v, n) == LET x == ToNumber(v) IN x.t = "number" /\ x.h < 2 * n
Greater(v, n) == LET x == ToNumber(v) IN x.t = "number" /\ x.h > 2 * n

\* s.startsWith(p)
StartsWith(s, p) == Len(p) <= Len(s) /\ SubSeq(s, 1, Len(p)) = p

RECURSIVE Split(_, _)
\* s.split(c) for a one-character separator
Split(s, c) ==
  IF \A i \in 1..Len(s) : s[i] # c THEN <<s>>
  ELSE LET i == CHOOSE j \in 1..Len(s) :
                  s[j] = c /\ \A k \in 1..(j - 1) : s[k] # c
       IN <<SubSeq(s, 1, i - 1)>> \o Split(SubSeq(s, i + 1, Len(s)), c)

\* a[i] of a JavaScript array, 0-based: undefined past the end
At(a, i) == IF i + 1 <= Len(a) THEN StrV(a[i + 1]) ELSE Undef

\* new Date(ms).toISOString(), for an instant in the first second of the epoch
ToISOString(ms) ==
  <<"1", "9", "7", "0", "-", "0", "1", "-", "0", "1", "T",
    "0", "0", ":", "0", "0", ":", "0", "0", ".">>
  \o (IF ms < 10 THEN <<"0", "0">> ELSE IF ms < 100 THEN <<"0">> ELSE <<>>)
  \o Decimal(ms) \o <<"Z">>

-----------------------------------------------------------------------------
(* String constants of the source *)

BearerPrefix == <<"B", "e", "a", "r", "e", "r", " ">>
UserPrefix == <<"u", "s", "e", "r", ":">>
FeedbackPrefix == <<"f", "e", "e", "d", "b", "a", "c", "k", ":">>
KindUniversity == <<"u", "n", "i", "v", "e", "r", "s", "i", "t", "y">>
KindLocation == <<"l", "o", "c", "a", "t", "i", "o", "n">>
KindPickupRoute == <<"p", "i", "c", "k", "u", "p", "-", "r", "o", "u", "t", "e">>

MsgUnauthorized == "Unauthorized - Please login with your credentials"
MsgUnauthorizedFeedback == "Unauthorized - Please login to submit feedback"
MsgInternal == "Internal server error"
\* the message of an exception a collaborator or the JSON parser throws
MsgThrown == "exception"

-----------------------------------------------------------------------------
(* The identity provider (external collaborator) *)

Id1 == <<"u", "1">>
Id2 == <<"u", "2">>
Token1 == <<"t", "1">>
Token2 == <<"t", "2">>

\* the identities that exist before the first request; the second has no email
Identity1 == [id |-> Id1, email |-> <<"a">>, name |-> StrV(<<"n", "1">>),
              role |-> StrV(<<"s">>)]
Identity2 == [id |-> Id2, email |-> <<>>, name |-> StrV(<<"n", "2">>),
              role |-> StrV(<<"p">>)]

\* the sessions the provider has issued: token -> identity id
Sessions == (Token1 :> Id1) @@ (Token2 :> Id2)

\* how a collaborator call ends: it answers, it reports an error in its
\* result, it answers with no data and no error, or it throws
Outcomes == {"ok", "error", "nodata", "throw"}

NoUser == [ok |-> FALSE, userId |-> <<>>, email |-> <<>>]

\* supabase.auth.getUser(token): the identity of a token the provider accepts
GetUser(token, out) ==
  IF out = "nodata"
  THEN [error |-> FALSE, hasUser |-> FALSE, id |-> <<>>, email |-> <<>>]
  ELSE IF out = "ok" /\ token.t = "string" /\ token.s \in DOMAIN Sessions
          /\ token.s \notin revoked
          /\ \E u \in identities : u.id = Sessions[token.s]
  THEN LET u == CHOOSE u \in identities : u.id = Sessions[token.s]
       IN [error |-> FALSE, hasUser |-> TRUE, id |-> u.id, email |-> u.email]
  ELSE [error |-> TRUE, hasUser |-> FALSE, id |-> <<>>, email |-> <<>>]

\* verifyAuth without the test of the 'Bearer ' prefix
verifyAuthAnyScheme(authHeader, out) ==
  IF ~Truthy(authHeader)
  THEN [threw |-> FALSE, called |-> FALSE, user |-> NoUser]
  ELSE IF out = "throw"
  THEN [threw |-> TRUE, called |-> TRUE, user |-> NoUser]
  ELSE LET token == At(Split(authHeader.s, " "), 1)
           res == GetUser(token, out)
       IN IF res.error \/ ~res.hasUser
          THEN [threw |-> FALSE, called |-> TRUE, user |-> NoUser]
          ELSE [threw |-> FALSE, called |-> TRUE,
                user |-> [ok |-> TRUE, userId |-> res.id, email |-> res.email]]

\* verifyAuth: the caller's identity, or null (ok = FALSE); called tells whether
\* the provider was asked, threw whether its call threw
verifyAuth(authHeader, out) ==
  IF ~Truthy(authHeader) \/ ~StartsWith(authHeader.s, BearerPrefix)
  THEN [threw |-> FALSE, called |-> FALSE, user |-> NoUser]
  ELSE IF out = "throw"
  THEN [threw |-> TRUE, called |-> TRUE, user |-> NoUser]
  ELSE LET token == At(Split(authHeader.s, " "), 1)
           res == GetUser(token, out)
       IN IF res.error \/ ~res.hasUser
          THEN [threw |-> FALSE, called |-> TRUE, user |-> NoUser]
          ELSE [threw |-> FALSE, called |-> TRUE,
                user |-> [ok |-> TRUE, userId |-> res.id, email |-> res.email]]

-----------------------------------------------------------------------------
(* The Record Store (kv_store.tsx) *)

\* what get returns for a key never set
Absent == Undef

KvSet(key, value) ==
  [k \in DOMAIN kv \cup {key} |-> IF k = key THEN value ELSE kv[k]]

KvGet(key) == IF key \in DOMAIN kv THEN kv[key] ELSE Absent

\* the values under the keys that start with prefix (their order is unspecified)
KvGetByPrefix(prefix) == {kv[k] : k \in {x \in DOMAIN kv : StartsWith(x, prefix)}}

-----------------------------------------------------------------------------
(* Keys *)

\* the key with the time of the call appended
UserKeyWithTime(userId, kind) ==
  UserPrefix \o userId \o <<":">> \o kind \o Decimal(now)

\* `user:${user.userId}:<kind>`

\* the key without the caller's id
UserKeyNoId(userId, kind) == UserPrefix \o kind

UserKey(userId, kind) == UserPrefix \o userId \o <<":">> \o kind

\* `feedback:${driver_id}:${Date.now()}:${user.userId}`
FeedbackKey(driver_id, ms, userId) ==
  FeedbackPrefix \o TemplateString(driver_id) \o <<":">> \o Decimal(ms)
    \o <<":">> \o userId

\* `feedback:${driverId}:`
FeedbackScanPrefix(driverId) == FeedbackPrefix \o driverId \o <<":">>

-----------------------------------------------------------------------------
(* Requests *)

Protected == {"saveUniversity", "saveLocation", "getProfile", "savePickupRoute",
              "getPickupRoute", "submitFeedback"}

NoOp == [key |-> <<>>, value |-> Undef]

IdleReq == [pc |-> "idle", ep |-> "none", hdr |-> Undef, user |-> NoUser,
            body |-> Undef, pend |-> NoOp, meta |-> Undef, got |-> Undef,
            status |-> 0, error |-> "", data |-> Undef, calls |-> <<>>]

Call(op, key, ok) == [op |-> op, key |-> key, ok |-> ok]

RECURSIVE Json(_)
\* c.json(v): JSON.stringify leaves out the properties whose value is undefined
Json(v) ==
  IF v.t = "object"
  THEN Obj([n \in {m \in DOMAIN v.f : v.f[m].t # "undefined"} |-> Json(v.f[n])])
  ELSE v

\* return c.json(data), or return c.json({ error }, status)
Respond(rec, status, error, data) ==
  [rec EXCEPT !.pc = "done", !.status = status, !.error = error,
              !.data = Json(data)]

\* an exception that leaves the handler, no response being sent
CatchRethrow(rec, message) == [rec EXCEPT !.pc = "thrown"]

\* catch (err): err.message || "Internal server error", 500
Catch(rec, message) ==
  Respond(rec, 500, IF message # "" THEN message ELSE MsgInternal, Undef)

\* { success: true, message }
Success(message) == Obj([success |-> [t |-> "boolean", b |-> TRUE],
                         message |-> [t |-> "text", m |-> message]])

\* a parser that answers undefined for a body that is not JSON
BodyThrowsOnNullOnly(b) == b.t = "null"

\* await c.req.json() throws: the body is not JSON, or destructuring null throws
BodyThrows(b) == b.t \in {"malformed", "null"}

-----------------------------------------------------------------------------
(* The browser's provider client (utils/supabase/client.ts) *)

BrowserCall == 1..MaxCalls

IdleCall == [op |-> "none", pc |-> "idle", result |-> "none"]

\* the module once loaded: supabaseInstance is null (0); instances are numbered
\* in the order createSupabaseClient builds them; the page holds a session
BrowserLoaded ==
  [instance |-> 0, constructed |-> 0, returned |-> {}, session |-> TRUE,
   calls |-> [t \in BrowserCall |-> IdleCall]]

\* createClient that builds a client on every call
createClientFresh(b) ==
  [b EXCEPT !.instance = b.constructed + 1,
            !.constructed = @ + 1,
            !.returned = @ \cup {b.constructed + 1}]

\* createClient(): builds the client when supabaseInstance is null, and returns
\* supabaseInstance
createClient(b) ==
  IF b.instance = 0
  THEN [b EXCEPT !.instance = b.constructed + 1,
                 !.constructed = @ + 1,
                 !.returned = @ \cup {b.constructed + 1}]
  ELSE [b EXCEPT !.returned = @ \cup {b.instance}]

Init ==
  /\ reqs = [r \in Req |-> IdleReq]
  /\ kv = <<>>
  /\ identities = {Identity1, Identity2}
  /\ revoked = {}
  /\ now = 0
  /\ before = {}
  /\ browser = BrowserLoaded

\* a request arrives; requests are numbered in their order of arrival
Begin(r, E) ==
  /\ reqs[r].pc = "idle"
  /\ \A q \in Req : q < r => reqs[q].pc # "idle"
  /\ \E e \in E : reqs' = [reqs EXCEPT ![r] = [@ EXCEPT !.pc = "recv", !.ep = e]]
  /\ before' = before \cup {<<q, r>> : q \in {x \in Req : reqs[x].pc = "done"}}
  /\ UNCHANGED <<browser, kv, identities, revoked, now>>

\* the clock advances
Tick ==
  /\ now < MaxTicks
  /\ now' = now + 1
  /\ UNCHANGED <<browser, reqs, kv, identities, revoked, before>>

\* the identity provider stops accepting a token: it expires or is revoked
Revoke(t) ==
  /\ t \notin revoked
  /\ revoked' = revoked \cup {t}
  /\ UNCHANGED <<browser, reqs, kv, identities, now, before>>

\* where a protected handler goes once verifyAuth has returned an identity
AfterAuth(e) ==
  CASE e = "getProfile" -> "byid"
    [] e = "getPickupRoute" -> "get"
    [] OTHER -> "body"

\* the 401 check that reuses the identity an earlier request obtained for the
\* same header
AuthenticateCached(r, H) ==
  /\ reqs[r].pc = "recv"
  /\ reqs[r].ep \in Protected
  /\ \E h \in H, out \in Outcomes :
       LET hit == {q \in Req : reqs[q].pc = "done" /\ reqs[q].hdr = h
                                /\ reqs[q].user.ok}
           v == IF hit # {}
                THEN [threw |-> FALSE, called |-> FALSE,
                      user |-> reqs[CHOOSE q \in hit : TRUE].user]
                ELSE verifyAuth(h, out)
           rec == [reqs[r] EXCEPT
                     !.hdr = h,
                     !.calls = IF v.called
                               THEN Append(@, Call("getUser", <<>>, ~v.threw))
                               ELSE @]
       IN reqs' = [reqs EXCEPT ![r] =
            IF v.threw THEN Catch(rec, MsgThrown)
            ELSE IF ~v.user.ok
            THEN Respond(rec, 401,
                         IF rec.ep = "submitFeedback" THEN MsgUnauthorizedFeedback
                         ELSE MsgUnauthorized, Undef)
            ELSE [rec EXCEPT !.user = v.user, !.pc = AfterAuth(rec.ep)]]
  /\ UNCHANGED <<browser, kv, identities, revoked, now, before>>

\* the 401 check that tells a rejected token from a missing one
AuthenticateRevealing(r, H) ==
  /\ reqs[r].pc = "recv"
  /\ reqs[r].ep \in Protected
  /\ \E h \in H, out \in Outcomes :
       LET v == verifyAuth(h, out)
           rec == [reqs[r] EXCEPT
                     !.hdr = h,
                     !.calls = IF v.called
                               THEN Append(@, Call("getUser", <<>>, ~v.threw))
                               ELSE @]
       IN reqs' = [reqs EXCEPT ![r] =
            IF v.threw THEN Catch(rec, MsgThrown)
            ELSE IF ~v.user.ok
            THEN Respond(rec, 401,
                         IF v.called THEN "Invalid or expired token"
                         ELSE MsgUnauthorized, Undef)
            ELSE [rec EXCEPT !.user = v.user, !.pc = AfterAuth(rec.ep)]]
  /\ UNCHANGED <<browser, kv, identities, revoked, now, before>>

\* const user = await verifyAuth(c.req.header('Authorization')); if (!user) 401
Authenticate(r, H) ==
  /\ reqs[r].pc = "recv"
  /\ reqs[r].ep \in Protected
  /\ \E h \in H, out \in Outcomes :
       LET v == verifyAuth(h, out)
           rec == [reqs[r] EXCEPT
                     !.hdr = h,
                     !.calls = IF v.called
                               THEN Append(@, Call("getUser", <<>>, ~v.threw))
                               ELSE @]
       IN reqs' = [reqs EXCEPT ![r] =
            IF v.threw THEN Catch(rec, MsgThrown)
            ELSE IF ~v.user.ok
            THEN Respond(rec, 401,
                         IF rec.ep = "submitFeedback" THEN MsgUnauthorizedFeedback
                         ELSE MsgUnauthorized, Undef)
            ELSE [rec EXCEPT !.user = v.user, !.pc = AfterAuth(rec.ep)]]
  /\ UNCHANGED <<browser, kv, identities, revoked, now, before>>

\* POST /user/university that writes the value before it tests it
SaveUniversityLateCheck(r, B) ==
  /\ reqs[r].pc = "body"
  /\ reqs[r].ep = "saveUniversity"
  /\ \E b \in B :
       LET rec == [reqs[r] EXCEPT !.body = b]
           university_id == Field(b, "university_id")
           key == UserKey(rec.user.userId, KindUniversity)
       IN IF BodyThrows(b)
          THEN /\ reqs' = [reqs EXCEPT ![r] = Catch(rec, MsgThrown)]
               /\ kv' = kv
          ELSE IF ~Truthy(university_id)
          THEN /\ kv' = KvSet(key, university_id)
               /\ reqs' = [reqs EXCEPT ![r] =
                    Respond([rec EXCEPT !.calls = Append(@, Call("set", key, TRUE))],
                            400, "University ID is required", Undef)]
          ELSE /\ kv' = kv
               /\ reqs' = [reqs EXCEPT ![r] =
                    [rec EXCEPT !.pc = "store",
                                !.pend = [key |-> key, value |-> university_id]]]
  /\ UNCHANGED <<browser, identities, revoked, now, before>>

\* POST /user/university, from the body to the kv.set
SaveUniversity(r, B) ==
  /\ reqs[r].pc = "body"
  /\ reqs[r].ep = "saveUniversity"
  /\ \E b \in B :
       LET rec == [reqs[r] EXCEPT !.body = b]
           university_id == Field(b, "university_id")
       IN reqs' = [reqs EXCEPT ![r] =
            IF BodyThrows(b) THEN Catch(rec, MsgThrown)
            ELSE IF ~Truthy(university_id)
            THEN Respond(rec, 400, "University ID is required", Undef)
            ELSE [rec EXCEPT !.pc = "store",
                    !.pend = [key |-> UserKey(rec.user.userId, KindUniversity),
                              value |-> university_id]]]
  /\ UNCHANGED <<browser, kv, identities, revoked, now, before>>

\* POST /user/location, from the body to the kv.set
SaveLocation(r, B) ==
  /\ reqs[r].pc = "body"
  /\ reqs[r].ep = "saveLocation"
  /\ \E b \in B :
       LET rec == [reqs[r] EXCEPT !.body = b]
           latitude == Field(b, "latitude")
           longitude == Field(b, "longitude")
           address == Field(b, "address")
       IN reqs' = [reqs EXCEPT ![r] =
            IF BodyThrows(b) THEN Catch(rec, MsgThrown)
            ELSE IF ~Truthy(latitude) \/ ~Truthy(longitude)
            THEN Respond(rec, 400, "Latitude and longitude are required", Undef)
            ELSE [rec EXCEPT !.pc = "store",
                    !.pend = [key |-> UserKey(rec.user.userId, KindLocation),
                              value |-> Obj([latitude |-> latitude,
                                             longitude |-> longitude,
                                             address |-> OrElse(address, Null),
                                             updated_at |-> StrV(ToISOString(now))])]]]
  /\ UNCHANGED <<browser, kv, identities, revoked, now, before>>

\* the pickup-route record with the coordinates exchanged
PickupRouteRecordSwapped(bus_id, pickup_latitude, pickup_longitude) ==
  Obj([bus_id |-> bus_id, pickup_latitude |-> pickup_longitude,
       pickup_longitude |-> pickup_latitude,
       created_at |-> StrV(ToISOString(now))])

\* the record POST /user/pickup-route stores
PickupRouteRecord(bus_id, pickup_latitude, pickup_longitude) ==
  Obj([bus_id |-> bus_id, pickup_latitude |-> pickup_latitude,
       pickup_longitude |-> pickup_longitude,
       created_at |-> StrV(ToISOString(now))])

\* POST /user/pickup-route, from the body to the kv.set
SavePickupRoute(r, B) ==
  /\ reqs[r].pc = "body"
  /\ reqs[r].ep = "savePickupRoute"
  /\ \E b \in B :
       LET rec == [reqs[r] EXCEPT !.body = b]
           bus_id == Field(b, "bus_id")
           pickup_latitude == Field(b, "pickup_latitude")
           pickup_longitude == Field(b, "pickup_longitude")
       IN reqs' = [reqs EXCEPT ![r] =
            IF BodyThrows(b) THEN Catch(rec, MsgThrown)
            ELSE IF ~Truthy(bus_id) \/ ~Truthy(pickup_latitude)
                    \/ ~Truthy(pickup_longitude)
            THEN Respond(rec, 400, "Bus ID and pickup coordinates are required",
                         Undef)
            ELSE [rec EXCEPT !.pc = "store",
                    !.pend = [key |-> UserKey(rec.user.userId, KindPickupRoute),
                              value |-> PickupRouteRecord(bus_id, pickup_latitude,
                                                          pickup_longitude)]]]
  /\ UNCHANGED <<browser, kv, identities, revoked, now, before>>

\* the message of a save handler's success response
SavedMessage(e) ==
  CASE e = "saveUniversity" -> "University saved successfully"
    [] e = "saveLocation" -> "Location saved successfully"
    [] e = "savePickupRoute" -> "Pickup route saved successfully"
    [] OTHER -> "Feedback submitted successfully"

\* the timestamp a stored value carries
StampOf(v) == OrElse(Field(v, "updated_at"), Field(v, "created_at"))

\* a carries a later timestamp than b
Newer(a, b) ==
  \E m1, m2 \in 0..(MaxTicks + 1) :
    /\ m1 > m2
    /\ StampOf(a) = StrV(ToISOString(m1))
    /\ StampOf(b) = StrV(ToISOString(m2))

\* a set that keeps the stored value when it carries the later timestamp
StoreSetNewestWins(r) ==
  /\ reqs[r].pc = "store"
  /\ \E ok \in BOOLEAN :
       LET rec == [reqs[r] EXCEPT !.calls = Append(@, Call("set", reqs[r].pend.key, ok))]
       IN /\ kv' = IF ok /\ ~Newer(KvGet(rec.pend.key), rec.pend.value)
                   THEN KvSet(rec.pend.key, rec.pend.value) ELSE kv
          /\ reqs' = [reqs EXCEPT ![r] =
               IF ok THEN Respond(rec, 200, "", Success(SavedMessage(rec.ep)))
               ELSE Catch(rec, MsgThrown)]
  /\ UNCHANGED <<browser, identities, revoked, now, before>>

\* a set that is issued a second time after the first
StoreSetTwice(r) ==
  /\ reqs[r].pc = "store"
  /\ \E ok \in BOOLEAN :
       LET rec == [reqs[r] EXCEPT
                     !.calls = @ \o <<Call("set", reqs[r].pend.key, ok),
                                      Call("set", reqs[r].pend.key, ok)>>]
       IN /\ kv' = IF ok THEN KvSet(rec.pend.key, rec.pend.value) ELSE kv
          /\ reqs' = [reqs EXCEPT ![r] =
               IF ok THEN Respond(rec, 200, "", Success(SavedMessage(rec.ep)))
               ELSE Catch(rec, MsgThrown)]
  /\ UNCHANGED <<browser, identities, revoked, now, before>>

\* await kv.set(key, value), then the success response; a failed set throws
StoreSet(r) ==
  /\ reqs[r].pc = "store"
  /\ \E ok \in BOOLEAN :
       LET rec == [reqs[r] EXCEPT !.calls = Append(@, Call("set", reqs[r].pend.key, ok))]
       IN /\ kv' = IF ok THEN KvSet(rec.pend.key, rec.pend.value) ELSE kv
          /\ reqs' = [reqs EXCEPT ![r] =
               IF ok THEN Respond(rec, 200, "", Success(SavedMessage(rec.ep)))
               ELSE Catch(rec, MsgThrown)]
  /\ UNCHANGED <<browser, identities, revoked, now, before>>

\* supabase.auth.admin.getUserById(id): the identity's metadata, when it answers
GetUserById(id, out) ==
  IF out = "ok" /\ \E u \in identities : u.id = id
  THEN LET u == CHOOSE u \in identities : u.id = id
       IN Obj([name |-> u.name, role |-> u.role])
  ELSE Undef

\* GET /user/profile: const { data: userData } = await getUserById(user.userId)
ProfileGetUserById(r) ==
  /\ reqs[r].pc = "byid"
  /\ \E out \in Outcomes :
       LET rec == [reqs[r] EXCEPT
                     !.calls = Append(@, Call("getUserById", <<>>, out = "ok"))]
       IN reqs' = [reqs EXCEPT ![r] =
            IF out = "throw" THEN Catch(rec, MsgThrown)
            ELSE [rec EXCEPT !.pc = "get1",
                             !.meta = GetUserById(rec.user.userId, out)]]
  /\ UNCHANGED <<browser, kv, identities, revoked, now, before>>

\* GET /user/profile: const university = await kv.get(`user:${id}:university`)
ProfileGetUniversity(r) ==
  /\ reqs[r].pc = "get1"
  /\ \E ok \in BOOLEAN :
       LET key == UserKey(reqs[r].user.userId, KindUniversity)
           rec == [reqs[r] EXCEPT !.calls = Append(@, Call("get", key, ok))]
       IN reqs' = [reqs EXCEPT ![r] =
            IF ok THEN [rec EXCEPT !.pc = "get2", !.got = KvGet(key)]
            ELSE Catch(rec, MsgThrown)]
  /\ UNCHANGED <<browser, kv, identities, revoked, now, before>>

\* GET /user/profile: const location = await kv.get(`user:${id}:location`), then
\* the response
ProfileGetLocation(r) ==
  /\ reqs[r].pc = "get2"
  /\ \E ok \in BOOLEAN :
       LET key == UserKey(reqs[r].user.userId, KindLocation)
           rec == [reqs[r] EXCEPT !.calls = Append(@, Call("get", key, ok))]
       IN reqs' = [reqs EXCEPT ![r] =
            IF ok
            THEN Respond(rec, 200, "",
                   Obj([user |-> Obj([id |-> StrV(rec.user.userId),
                                      email |-> StrV(rec.user.email),
                                      name |-> Field(rec.meta, "name"),
                                      role |-> Field(rec.meta, "role")]),
                        university |-> rec.got,
                        location |-> KvGet(key)]))
            ELSE Catch(rec, MsgThrown)]
  /\ UNCHANGED <<browser, kv, identities, revoked, now, before>>

\* GET /user/pickup-route that stores an empty route for a user who has none
PickupRouteGetInitialising(r) ==
  /\ reqs[r].pc = "get"
  /\ \E ok \in BOOLEAN :
       LET key == UserKey(reqs[r].user.userId, KindPickupRoute)
           rec == [reqs[r] EXCEPT !.calls = Append(@, Call("get", key, ok))]
       IN /\ kv' = IF ok /\ KvGet(key) = Absent THEN KvSet(key, Null) ELSE kv
          /\ reqs' = [reqs EXCEPT ![r] =
               IF ok THEN Respond(rec, 200, "", Obj([pickup_route |-> KvGet(key)]))
               ELSE Catch(rec, MsgThrown)]
  /\ UNCHANGED <<browser, identities, revoked, now, before>>

\* GET /user/pickup-route that answers 404 when the user has no route
PickupRouteGetNotFound(r) ==
  /\ reqs[r].pc = "get"
  /\ \E ok \in BOOLEAN :
       LET key == UserKey(reqs[r].user.userId, KindPickupRoute)
           rec == [reqs[r] EXCEPT !.calls = Append(@, Call("get", key, ok))]
       IN reqs' = [reqs EXCEPT ![r] =
            IF ~ok THEN Catch(rec, MsgThrown)
            ELSE IF KvGet(key) = Absent
            THEN Respond(rec, 404, "Pickup route not found", Undef)
            ELSE Respond(rec, 200, "", Obj([pickup_route |-> KvGet(key)]))]
  /\ UNCHANGED <<browser, kv, identities, revoked, now, before>>

\* GET /user/pickup-route: await kv.get(`user:${id}:pickup-route`), the response
PickupRouteGet(r) ==
  /\ reqs[r].pc = "get"
  /\ \E ok \in BOOLEAN :
       LET key == UserKey(reqs[r].user.userId, KindPickupRoute)
           rec == [reqs[r] EXCEPT !.calls = Append(@, Call("get", key, ok))]
       IN reqs' = [reqs EXCEPT ![r] =
            IF ok THEN Respond(rec, 200, "", Obj([pickup_route |-> KvGet(key)]))
            ELSE Catch(rec, MsgThrown)]
  /\ UNCHANGED <<browser, kv, identities, revoked, now, before>>

\* the rating test with the bounds excluded
RatingRejectedAtBounds(rating) == ~Greater(rating, 1) \/ ~Less(rating, 5)

\* the rating test of POST /feedback
RatingRejected(rating) == Less(rating, 1) \/ Greater(rating, 5)

\* POST /feedback that takes the author from the body when the body names one
SubmitFeedbackTrustingBody(r, B) ==
  /\ reqs[r].pc = "body"
  /\ reqs[r].ep = "submitFeedback"
  /\ \E b \in B :
       LET rec == [reqs[r] EXCEPT !.body = b]
           driver_id == Field(b, "driver_id")
           rating == Field(b, "rating")
           comment == Field(b, "comment")
       IN reqs' = [reqs EXCEPT ![r] =
            IF BodyThrows(b) THEN Catch(rec, MsgThrown)
            ELSE IF ~Truthy(driver_id) \/ ~Truthy(rating)
            THEN Respond(rec, 400, "Driver ID and rating are required", Undef)
            ELSE IF RatingRejected(rating)
            THEN Respond(rec, 400, "Rating must be between 1 and 5", Undef)
            ELSE [rec EXCEPT !.pc = "store",
                    !.pend = [key |-> FeedbackKey(driver_id, now, rec.user.userId),
                              value |-> Obj([driver_id |-> driver_id,
                                             user_id |-> OrElse(Field(b, "user_id"),
                                                                StrV(rec.user.userId)),
                                             user_email |-> StrV(rec.user.email),
                                             rating |-> rating,
                                             comment |-> OrElse(comment, Null),
                                             created_at |-> StrV(ToISOString(now))])]]]
  /\ UNCHANGED <<browser, kv, identities, revoked, now, before>>

\* POST /feedback, from the body to the kv.set
SubmitFeedback(r, B) ==
  /\ reqs[r].pc = "body"
  /\ reqs[r].ep = "submitFeedback"
  /\ \E b \in B :
       LET rec == [reqs[r] EXCEPT !.body = b]
           driver_id == Field(b, "driver_id")
           rating == Field(b, "rating")
           comment == Field(b, "comment")
       IN reqs' = [reqs EXCEPT ![r] =
            IF BodyThrows(b) THEN Catch(rec, MsgThrown)
            ELSE IF ~Truthy(driver_id) \/ ~Truthy(rating)
            THEN Respond(rec, 400, "Driver ID and rating are required", Undef)
            ELSE IF RatingRejected(rating)
            THEN Respond(rec, 400, "Rating must be between 1 and 5", Undef)
            ELSE [rec EXCEPT !.pc = "store",
                    !.pend = [key |-> FeedbackKey(driver_id, now, rec.user.userId),
                              value |-> Obj([driver_id |-> driver_id,
                                             user_id |-> StrV(rec.user.userId),
                                             user_email |-> StrV(rec.user.email),
                                             rating |-> rating,
                                             comment |-> OrElse(comment, Null),
                                             created_at |-> StrV(ToISOString(now))])]]]
  /\ UNCHANGED <<browser, kv, identities, revoked, now, before>>

\* GET /drivers/:driverId/feedback behind the Token Verifier
DriverFeedbackProtected(r, D, H) ==
  /\ reqs[r].pc = "recv"
  /\ reqs[r].ep = "driverFeedback"
  /\ \E driverId \in D, h \in H, ok \in BOOLEAN :
       LET prefix == FeedbackScanPrefix(driverId)
           v == verifyAuth(h, "ok")
           rec == [reqs[r] EXCEPT !.hdr = h,
                                  !.body = Obj([driverId |-> StrV(driverId)])]
           scanned == [rec EXCEPT !.calls = Append(@, Call("scan", prefix, ok))]
       IN reqs' = [reqs EXCEPT ![r] =
            IF ~v.user.ok THEN Respond(rec, 401, MsgUnauthorized, Undef)
            ELSE IF ok
            THEN Respond(scanned, 200, "",
                   Obj([feedback |-> [t |-> "array",
                                      items |-> KvGetByPrefix(prefix)]]))
            ELSE Catch(scanned, MsgThrown)]
  /\ UNCHANGED <<browser, kv, identities, revoked, now, before>>

\* GET /drivers/:driverId/feedback: the path parameter, the prefix scan, and the
\* response { feedback: allFeedback || [] }; the request's Authorization header,
\* one of H, is not read
DriverFeedback(r, D, H) ==
  /\ reqs[r].pc = "recv"
  /\ reqs[r].ep = "driverFeedback"
  /\ \E driverId \in D, h \in H, ok \in BOOLEAN :
       LET prefix == FeedbackScanPrefix(driverId)
           rec == [reqs[r] EXCEPT !.hdr = h,
                                  !.body = Obj([driverId |-> StrV(driverId)]),
                                  !.calls = Append(@, Call("scan", prefix, ok))]
       IN reqs' = [reqs EXCEPT ![r] =
            IF ok
            THEN Respond(rec, 200, "",
                   Obj([feedback |-> [t |-> "array",
                                      items |-> KvGetByPrefix(prefix)]]))
            ELSE Catch(rec, MsgThrown)]
  /\ UNCHANGED <<browser, kv, identities, revoked, now, before>>

\* GET /universities: an empty list
Universities(r) ==
  /\ reqs[r].pc = "recv"
  /\ reqs[r].ep = "universities"
  /\ reqs' = [reqs EXCEPT ![r] =
       Respond(@, 200, "", Obj([universities |-> [t |-> "array", items |-> {}]]))]
  /\ UNCHANGED <<browser, kv, identities, revoked, now, before>>

\* a health check that probes the Record Store before it answers
HealthProbingStore(r) ==
  /\ reqs[r].pc = "recv"
  /\ reqs[r].ep = "health"
  /\ \E ok \in BOOLEAN :
       LET rec == [reqs[r] EXCEPT !.calls = Append(@, Call("get", <<>>, ok))]
       IN reqs' = [reqs EXCEPT ![r] =
            IF ok THEN Respond(rec, 200, "", Obj([status |-> StrV(<<"o", "k">>)]))
            ELSE Catch(rec, MsgThrown)]
  /\ UNCHANGED <<browser, kv, identities, revoked, now, before>>

\* GET /health
Health(r) ==
  /\ reqs[r].pc = "recv"
  /\ reqs[r].ep = "health"
  /\ reqs' = [reqs EXCEPT ![r] =
       Respond(@, 200, "", Obj([status |-> StrV(<<"o", "k">>)]))]
  /\ UNCHANGED <<browser, kv, identities, revoked, now, before>>

-----------------------------------------------------------------------------
(* POST /auth/signup *)

\* password.length: undefined for a value that is no string
Length(v) == IF v.t = "string" THEN Num(Len(v.s)) ELSE Undef

\* the length test that also lets a five-character password through
PasswordTooShortBelowFive(password) == Less(Length(password), 5)

\* password.length < 6
PasswordTooShort(password) == Less(Length(password), 6)

\* the body and its validation, up to the call of listUsers
SignupValidate(r, B) ==
  /\ reqs[r].pc = "recv"
  /\ reqs[r].ep = "signup"
  /\ \E b \in B :
       LET rec == [reqs[r] EXCEPT !.body = b]
       IN reqs' = [reqs EXCEPT ![r] =
            IF BodyThrows(b) THEN Catch(rec, MsgThrown)
            ELSE IF ~Truthy(Field(b, "email")) \/ ~Truthy(Field(b, "password"))
                    \/ ~Truthy(Field(b, "name")) \/ ~Truthy(Field(b, "role"))
            THEN Respond(rec, 400, "Email, password, name, and role are required",
                         Undef)
            ELSE IF PasswordTooShort(Field(b, "password"))
            THEN Respond(rec, 400, "Password must be at least 6 characters long",
                         Undef)
            ELSE [rec EXCEPT !.pc = "list"]]
  /\ UNCHANGED <<browser, kv, identities, revoked, now, before>>

\* existingUsers?.users?.some(u => u.email === email)
UserExists(users, email) ==
  \E u \in users : u.email # <<>> /\ email.t = "string" /\ u.email = email.s

\* await supabase.auth.admin.listUsers() and the duplicate check
SignupListUsers(r) ==
  /\ reqs[r].pc = "list"
  /\ \E out \in Outcomes :
       LET rec == [reqs[r] EXCEPT
                     !.calls = Append(@, Call("listUsers", <<>>, out = "ok"))]
           users == IF out = "ok" THEN identities ELSE {}
       IN reqs' = [reqs EXCEPT ![r] =
            IF out = "throw" THEN Catch(rec, MsgThrown)
            ELSE IF UserExists(users, Field(rec.body, "email"))
            THEN Respond(rec, 400, "An account with this email already exists",
                         Undef)
            ELSE [rec EXCEPT !.pc = "create"]]
  /\ UNCHANGED <<browser, kv, identities, revoked, now, before>>

\* the identity the provider creates
NewIdentity(email, name, role) ==
  [id |-> <<"n">> \o Decimal(Cardinality(identities)), email |-> email.s,
   name |-> name, role |-> role]

\* await supabase.auth.admin.createUser({...}) and the response
SignupCreateUser(r) ==
  /\ reqs[r].pc = "create"
  /\ \E o \in Outcomes :
       LET b == reqs[r].body
           out == IF o = "ok" /\ Field(b, "email").t # "string" THEN "error" ELSE o
           rec == [reqs[r] EXCEPT
                     !.calls = Append(@, Call("createUser", <<>>, out = "ok"))]
           u == NewIdentity(Field(b, "email"), Field(b, "name"), Field(b, "role"))
       IN /\ identities' = IF out = "ok" THEN identities \cup {u} ELSE identities
          /\ reqs' = [reqs EXCEPT ![r] =
               CASE out = "throw" -> Catch(rec, MsgThrown)
                 [] out = "error" -> Respond(rec, 400, "Failed to create account",
                                             Undef)
                 [] out = "nodata" -> Respond(rec, 500, "Failed to create user",
                                              Undef)
                 [] OTHER ->
                      Respond(rec, 200, "",
                        Obj([success |-> [t |-> "boolean", b |-> TRUE],
                             message |-> [t |-> "text",
                                          m |-> "Account created successfully"],
                             user |-> Obj([id |-> StrV(u.id),
                                           email |-> StrV(u.email),
                                           name |-> Field(b, "name"),
                                           role |-> Field(b, "role"),
                                           roll_number |-> Field(b, "roll_number"),
                                           phone_number |-> Field(b, "phone_number"),
                                           emergency_phone |->
                                             Field(b, "emergency_phone")])]))]
  /\ UNCHANGED <<browser, kv, revoked, now, before>>

-----------------------------------------------------------------------------
(* Inputs *)

Basic == <<"B", "a", "s", "i", "c", " ">>

\* Authorization headers: none, another scheme, the token alone, the two
\* sessions, and a token the provider never issued
HdrNone == Undef
HdrBasic == StrV(Basic \o Token1)
HdrBare == StrV(Token1)
HdrUser1 == StrV(BearerPrefix \o Token1)
HdrUser2 == StrV(BearerPrefix \o Token2)
HdrUnknown == StrV(BearerPrefix \o <<"z">>)

Headers == {HdrNone, HdrBasic, HdrBare, HdrUser1, HdrUser2, HdrUnknown}

UniversityA == Obj([university_id |-> StrV(<<"A">>)])
UniversityB == Obj([university_id |-> StrV(<<"B">>)])

Location1 == Obj([latitude |-> Num(1), longitude |-> Num(2),
                  address |-> StrV(<<"x">>)])
Location2 == Obj([latitude |-> Num(3), longitude |-> Num(4)])
LocationZero == Obj([latitude |-> Num(0), longitude |-> Num(0)])

Pickup1 == Obj([bus_id |-> StrV(<<"b", "1">>), pickup_latitude |-> Num(1),
                pickup_longitude |-> Num(2)])
Pickup2 == Obj([bus_id |-> StrV(<<"b", "2">>), pickup_latitude |-> Num(3),
                pickup_longitude |-> Num(4)])
PickupNoBus == Obj([pickup_latitude |-> Num(1), pickup_longitude |-> Num(2)])

DriverA == <<"a">>
DriverB == <<"b">>
\* a driver id that holds the key delimiter
DriverAB == <<"a", ":", "b">>

Feedback(driver, rating) == Obj([driver_id |-> StrV(driver), rating |-> Num(rating)])

Endpoints == Protected \cup {"signup", "driverFeedback", "universities", "health"}

SignupBody(email, password) ==
  Obj([email |-> StrV(email), password |-> StrV(password),
       name |-> StrV(<<"n">>), role |-> StrV(<<"s">>)])

Password6 == <<"s", "e", "c", "r", "e", "t">>
Password5 == <<"s", "e", "c", "r", "e">>

-----------------------------------------------------------------------------
(* All handlers, MaxConcurrent requests that interleave at every await *)

Next ==
  \/ \E r \in 1..MaxConcurrent : Begin(r, Endpoints)
  \/ Tick
  \/ \E r \in Req : Authenticate(r, Headers)
  \/ \E r \in Req : SaveUniversity(r, {Malformed, Obj(<<>>), UniversityA})
  \/ \E r \in Req : SaveLocation(r, {Malformed, Location1, LocationZero})
  \/ \E r \in Req : SavePickupRoute(r, {Null, Pickup1, PickupNoBus})
  \/ \E r \in Req : SubmitFeedback(r, {Malformed, Feedback(DriverA, 3),
                                       Feedback(DriverA, 6)})
  \/ \E r \in Req : StoreSet(r)
  \/ \E r \in Req : ProfileGetUserById(r)
  \/ \E r \in Req : ProfileGetUniversity(r)
  \/ \E r \in Req : ProfileGetLocation(r)
  \/ \E r \in Req : PickupRouteGet(r)
  \/ \E r \in Req : DriverFeedback(r, {DriverA}, {HdrNone})
  \/ \E r \in Req : Universities(r)
  \/ \E r \in Req : Health(r)
  \/ \E r \in Req : SignupValidate(r, {Malformed, SignupBody(<<"a">>, Password6),
                                       SignupBody(<<"c">>, Password6),
                                       SignupBody(<<"c">>, Password5)})
  \/ \E r \in Req : SignupListUsers(r)
  \/ \E r \in Req : SignupCreateUser(r)

Spec == Init /\ [][Next]_vars

-----------------------------------------------------------------------------
(* Driver feedback: submissions and prefix scans, MaxReqs requests *)

FeedbackHeaders == {HdrUser1, HdrUser2}

FeedbackBodies ==
  {Feedback(DriverA, 1), Feedback(DriverB, 5), Feedback(DriverAB, 5),
   Feedback(DriverA, 0), Feedback(DriverA, 6)}

NextFeedback ==
  \/ \E r \in Req : Begin(r, {"submitFeedback", "driverFeedback"})
  \/ Tick
  \/ \E r \in Req : Authenticate(r, FeedbackHeaders)
  \/ \E r \in Req : SubmitFeedback(r, FeedbackBodies)
  \/ \E r \in Req : StoreSet(r)
  \/ \E r \in Req : DriverFeedback(r, {DriverA, DriverB}, {HdrNone})

SpecFeedback == Init /\ [][NextFeedback]_vars

-----------------------------------------------------------------------------
(* Signup: MaxReqs requests *)

\* a body without name and role
SignupNoName == Obj([email |-> StrV(<<"c">>), password |-> StrV(<<"p">>)])

\* a body whose password is a number
SignupNumericPassword ==
  Obj([email |-> StrV(<<"c">>), password |-> Num(123),
       name |-> StrV(<<"n">>), role |-> StrV(<<"s">>)])

SignupBodies ==
  {SignupBody(<<"a">>, Password6), SignupBody(<<"A">>, Password6),
   SignupBody(<<"c">>, Password6), SignupBody(<<"C">>, Password6),
   SignupBody(<<"c">>, Password5), SignupBody(<<"c">>, <<>>),
   SignupNoName, SignupNumericPassword, Malformed}

NextSignup ==
  \/ \E r \in Req : Begin(r, {"signup"})
  \/ \E r \in Req : SignupValidate(r, SignupBodies)
  \/ \E r \in Req : SignupListUsers(r)
  \/ \E r \in Req : SignupCreateUser(r)

SpecSignup == Init /\ [][NextSignup]_vars

-----------------------------------------------------------------------------
(* Preferences, one request at a time: MaxReqs requests, each arriving after
   the one before it was answered *)

InFlight == {r \in Req : reqs[r].pc \notin {"idle", "done"}}

\* a request arrives while no other is being handled
BeginAlone(r, E) == InFlight = {} /\ Begin(r, E)

PreferenceEndpoints == {"saveUniversity", "saveLocation", "getProfile",
                        "savePickupRoute", "getPickupRoute"}

NextSerial ==
  \/ \E r \in Req : BeginAlone(r, PreferenceEndpoints)
  \/ Tick
  \/ \E r \in Req : Authenticate(r, {HdrUser1, HdrUser2})
  \/ \E r \in Req : SaveUniversity(r, {UniversityA, UniversityB})
  \/ \E r \in Req : SaveLocation(r, {Location1, Location2})
  \/ \E r \in Req : SavePickupRoute(r, {Pickup1, Pickup2})
  \/ \E r \in Req : StoreSet(r)
  \/ \E r \in Req : ProfileGetUserById(r)
  \/ \E r \in Req : ProfileGetUniversity(r)
  \/ \E r \in Req : ProfileGetLocation(r)
  \/ \E r \in Req : PickupRouteGet(r)

SpecSerial == Init /\ [][NextSerial]_vars

-----------------------------------------------------------------------------
(* Concurrent saves of one user, coordinates 0 included: MaxReqs requests that
   interleave at every await *)

\* payloads with a coordinate on the equator or on the prime meridian
LocationLatZero == Obj([latitude |-> Num(0), longitude |-> Num(2)])
LocationLonZero == Obj([latitude |-> Num(1), longitude |-> Num(0)])
PickupLatZero == Obj([bus_id |-> StrV(<<"b", "1">>), pickup_latitude |-> Num(0),
                      pickup_longitude |-> Num(2)])
PickupLonZero == Obj([bus_id |-> StrV(<<"b", "1">>), pickup_latitude |-> Num(1),
                      pickup_longitude |-> Num(0)])
PickupZero == Obj([bus_id |-> StrV(<<"b", "1">>), pickup_latitude |-> Num(0),
                   pickup_longitude |-> Num(0)])

LocationBodies == {Location1, Location2, LocationZero, LocationLatZero,
                   LocationLonZero}
PickupBodies == {Pickup1, Pickup2, PickupZero, PickupLatZero, PickupLonZero}

RaceEndpoints == {"saveLocation", "savePickupRoute"}

NextRace ==
  \/ \E r \in Req : Begin(r, RaceEndpoints)
  \/ Tick
  \/ \E r \in Req : Authenticate(r, {HdrUser1})
  \/ \E r \in Req : SaveLocation(r, LocationBodies)
  \/ \E r \in Req : SavePickupRoute(r, PickupBodies)
  \/ \E r \in Req : StoreSet(r)

SpecRace == Init /\ [][NextRace]_vars

-----------------------------------------------------------------------------

(* All handlers, every request that has arrived being run to its response: the
   runtime resumes a handler whenever the call it awaits has returned or
   thrown *)

\* a step of request r's handler
Handle(r) ==
  \/ Authenticate(r, Headers)
  \/ SaveUniversity(r, {Malformed, Obj(<<>>), UniversityA})
  \/ SaveLocation(r, {Malformed, Location1, LocationZero})
  \/ SavePickupRoute(r, {Null, Pickup1, PickupNoBus})
  \/ SubmitFeedback(r, {Malformed, Feedback(DriverA, 3), Feedback(DriverA, 6)})
  \/ StoreSet(r)
  \/ ProfileGetUserById(r)
  \/ ProfileGetUniversity(r)
  \/ ProfileGetLocation(r)
  \/ PickupRouteGet(r)
  \/ DriverFeedback(r, {DriverA}, {HdrNone})
  \/ Universities(r)
  \/ Health(r)
  \/ SignupValidate(r, {Malformed, SignupBody(<<"a">>, Password6),
                        SignupBody(<<"c">>, Password6),
                        SignupBody(<<"c">>, Password5)})
  \/ SignupListUsers(r)
  \/ SignupCreateUser(r)

SpecLive == Init /\ [][Next]_vars /\ \A r \in Req : WF_vars(Handle(r))

-----------------------------------------------------------------------------

(* Protected requests while the provider revokes a token: MaxReqs requests that
   interleave at every await *)

NextRevoke ==
  \/ \E r \in Req : Begin(r, Protected)
  \/ Revoke(Token1)
  \/ \E r \in Req : Authenticate(r, {HdrUser1})
  \/ \E r \in Req : SaveUniversity(r, {UniversityA})
  \/ \E r \in Req : SaveLocation(r, {Location1})
  \/ \E r \in Req : SavePickupRoute(r, {Pickup1})
  \/ \E r \in Req : SubmitFeedback(r, {Feedback(DriverA, 3)})
  \/ \E r \in Req : StoreSet(r)
  \/ \E r \in Req : ProfileGetUserById(r)
  \/ \E r \in Req : ProfileGetUniversity(r)
  \/ \E r \in Req : ProfileGetLocation(r)
  \/ \E r \in Req : PickupRouteGet(r)

SpecRevoke == Init /\ [][NextRevoke]_vars

-----------------------------------------------------------------------------

(* Feedback with the ratings a client can send, and the public list read with
   and without an Authorization header: MaxReqs requests *)

FeedbackRated(driver, rating) == Obj([driver_id |-> StrV(driver), rating |-> rating])

\* 1, 2.5, 5.5, "3", "7" and "x"
RatingValues == {Num(1), NumH(5), NumH(11), StrV(<<"3">>), StrV(<<"7">>),
                 StrV(<<"x">>)}

\* a body that names another user as its author
FeedbackForged ==
  Obj([driver_id |-> StrV(DriverA), rating |-> Num(2), user_id |-> StrV(Id2),
       user_email |-> StrV(<<"e">>)])

PublicHeaders == {HdrNone, HdrUser1, HdrUnknown}

NextPublic ==
  \/ \E r \in Req : Begin(r, {"submitFeedback", "driverFeedback"})
  \/ \E r \in Req : Authenticate(r, {HdrUser1})
  \/ \E r \in Req : SubmitFeedback(r, {FeedbackRated(DriverA, v) : v \in RatingValues}
                                         \cup {FeedbackForged})
  \/ \E r \in Req : StoreSet(r)
  \/ \E r \in Req : DriverFeedback(r, {DriverA, DriverB}, PublicHeaders)

SpecPublic == Init /\ [][NextPublic]_vars

-----------------------------------------------------------------------------

(* The browser module's functions *)

\* a call starts; calls are numbered in their order
Starts(t) ==
  /\ browser.calls[t].pc = "idle"
  /\ \A q \in BrowserCall : q < t => browser.calls[q].pc # "idle"

\* the page calls createClient() itself
CreateClientCall(t) ==
  /\ Starts(t)
  /\ browser' = [createClient(browser) EXCEPT
                   !.calls[t] = [op |-> "createClient", pc |-> "done",
                                 result |-> "instance"]]
  /\ UNCHANGED <<reqs, kv, identities, revoked, now, before>>

\* a helper, up to its await: const supabase = createClient()
HelperStarts(t, op) ==
  /\ Starts(t)
  /\ browser' = [createClient(browser) EXCEPT
                   !.calls[t] = [op |-> op, pc |-> "await", result |-> "none"]]
  /\ UNCHANGED <<reqs, kv, identities, revoked, now, before>>

\* the helper's awaited call of the client resolves, and the helper returns
HelperReturns(t, op, result, session) ==
  /\ browser.calls[t].pc = "await"
  /\ browser.calls[t].op = op
  /\ browser' = [browser EXCEPT !.calls[t].pc = "done",
                                !.calls[t].result = result,
                                !.session = session]
  /\ UNCHANGED <<reqs, kv, identities, revoked, now, before>>

\* getSession(), up to await supabase.auth.getSession()
getSession(t) == HelperStarts(t, "getSession")

\* getSession(): return { session, error }
getSessionReturns(t) ==
  \E failed \in BOOLEAN :
    HelperReturns(t, "getSession",
                  IF failed THEN "error"
                  ELSE IF browser.session THEN "session" ELSE "null",
                  browser.session)

\* getAccessToken(), up to the await in the getSession() it calls
getAccessToken(t) == HelperStarts(t, "getAccessToken")

\* getAccessToken(): return session?.access_token || null
getAccessTokenReturns(t) ==
  \E failed \in BOOLEAN :
    HelperReturns(t, "getAccessToken",
                  IF ~failed /\ browser.session THEN "token" ELSE "null",
                  browser.session)

\* getCurrentUser(), up to await supabase.auth.getUser()
getCurrentUser(t) == HelperStarts(t, "getCurrentUser")

\* getCurrentUser(): return { user, error }
getCurrentUserReturns(t) ==
  \E failed \in BOOLEAN :
    HelperReturns(t, "getCurrentUser",
                  IF failed \/ ~browser.session THEN "error" ELSE "user",
                  browser.session)

\* signOut(), up to await supabase.auth.signOut()
signOut(t) == HelperStarts(t, "signOut")

\* signOut(): return { error }; the session ends unless the call failed
signOutReturns(t) ==
  \E failed \in BOOLEAN :
    HelperReturns(t, "signOut", IF failed THEN "error" ELSE "null",
                  browser.session /\ failed)

NextBrowser ==
  \/ \E t \in BrowserCall : CreateClientCall(t)
  \/ \E t \in BrowserCall : getSession(t)
  \/ \E t \in BrowserCall : getSessionReturns(t)
  \/ \E t \in BrowserCall : getAccessToken(t)
  \/ \E t \in BrowserCall : getAccessTokenReturns(t)
  \/ \E t \in BrowserCall : getCurrentUser(t)
  \/ \E t \in BrowserCall : getCurrentUserReturns(t)
  \/ \E t \in BrowserCall : signOut(t)
  \/ \E t \in BrowserCall : signOutReturns(t)

SpecBrowser == Init /\ [][NextBrowser]_vars

-----------------------------------------------------------------------------

(* Vocabulary of the properties *)

Done(r) == reqs[r].pc = "done"

\* the request issued a call of one of these operations
Issued(r, ops) == \E i \in 1..Len(reqs[r].calls) : reqs[r].calls[i].op \in ops

\* an Authorization header that is absent or does not start with 'Bearer '
AbsentOrMalformed(h) == h.t # "string" \/ ~StartsWith(h.s, BearerPrefix)

Kinds == {KindUniversity, KindLocation, KindPickupRoute}

KnownIds == {u.id : u \in identities}

-----------------------------------------------------------------------------
(* C1: a request to a protected endpoint whose Authorization header is absent
   or does not start with 'Bearer ' is answered 401, and it has issued no set
   (indeed no call at all) on the Record Store, whatever else it carries. *)
C1_BadHeaderUnauthorized ==
  \A r \in Req :
    (Done(r) /\ reqs[r].ep \in Protected /\ AbsentOrMalformed(reqs[r].hdr))
      => /\ reqs[r].status = 401
         /\ reqs[r].calls = <<>>
         /\ reqs[r].pend = NoOp

\* C1 witness: POST /feedback has answered 401 to a request whose Authorization
\* header carries another scheme, while the store holds a record another
\* request wrote
C1_Witness ==
  /\ DOMAIN kv # {}
  /\ \E r \in Req :
       /\ Done(r) /\ reqs[r].ep = "submitFeedback"
       /\ reqs[r].hdr = HdrBasic /\ reqs[r].status = 401

(* C2: every get or set a request issues on a key user:<id>:<kind> carries the
   id that verifyAuth returned for that request, which is the identity of the
   session its bearer token belongs to; no request touches a key under
   user:<other id>:. *)
C2_KeysCarryVerifiedId ==
  \A r \in Req :
    \A i \in 1..Len(reqs[r].calls) :
      LET c == reqs[r].calls[i] IN
      (c.op \in {"get", "set"} /\ reqs[r].ep # "submitFeedback")
        => /\ reqs[r].user.ok
           /\ reqs[r].hdr.t = "string"
           /\ reqs[r].hdr.s = BearerPrefix \o SubSeq(reqs[r].hdr.s, 8, Len(reqs[r].hdr.s))
           /\ SubSeq(reqs[r].hdr.s, 8, Len(reqs[r].hdr.s)) \in DOMAIN Sessions
           /\ reqs[r].user.userId = Sessions[SubSeq(reqs[r].hdr.s, 8, Len(reqs[r].hdr.s))]
           /\ \E kind \in Kinds :
                c.key = UserPrefix \o reqs[r].user.userId \o <<":">> \o kind
           /\ \A other \in KnownIds \ {reqs[r].user.userId} :
                ~StartsWith(c.key, UserPrefix \o other \o <<":">>)

\* both users have stored a record, each under its own key
C2_Witness ==
  /\ UserPrefix \o Id1 \o <<":">> \o KindLocation \in DOMAIN kv
  /\ UserPrefix \o Id2 \o <<":">> \o KindPickupRoute \in DOMAIN kv
  /\ \E r \in Req : Done(r) /\ reqs[r].user.userId = Id2 /\ reqs[r].status = 200

-----------------------------------------------------------------------------
(* Feedback *)

FeedbackKeys == {k \in DOMAIN kv : StartsWith(k, FeedbackPrefix)}

\* the submissions answered with success
Submitted == {r \in Req : Done(r) /\ reqs[r].ep = "submitFeedback"
                          /\ reqs[r].status = 200}

\* the requests whose set on key k reached the store
Writers(k) ==
  {r \in Req : \E i \in 1..Len(reqs[r].calls) :
                 reqs[r].calls[i] = Call("set", k, TRUE)}

(* C3: the list GET /drivers/D/feedback returns holds no record whose driver_id
   is not D, and holds every stored record whose driver_id is D that was
   written before the request arrived. *)
C3_ScanReturnsExactlyTheDriver ==
  \A g \in Req :
    (Done(g) /\ reqs[g].ep = "driverFeedback" /\ reqs[g].status = 200)
      => LET D == Field(reqs[g].body, "driverId")
             items == reqs[g].data.f.feedback.items
         IN /\ \A v \in items : Field(v, "driver_id") = D
            /\ \A k \in FeedbackKeys :
                 (Field(kv[k], "driver_id") = D
                    /\ \A w \in Writers(k) : <<w, g>> \in before)
                   => kv[k] \in items

(* C4: feedback records are append-only: two submissions answered with success
   never wrote the same key, and the store holds as many feedback records as
   there are submissions answered with success. *)
C4_FeedbackKeysUnique ==
  /\ \A r1, r2 \in Submitted : r1 # r2 => reqs[r1].pend.key # reqs[r2].pend.key
  /\ Cardinality(FeedbackKeys) = Cardinality(Submitted)

\* an authenticated submission with a non-empty driver_id whose body was read
Rated(r, n) ==
  /\ reqs[r].ep = "submitFeedback"
  /\ reqs[r].user.ok
  /\ reqs[r].body.t = "object"
  /\ Truthy(Field(reqs[r].body, "driver_id"))
  /\ Field(reqs[r].body, "rating") = Num(n)

(* C7: an authenticated submission with a non-empty driver_id and a rating below
   1 or above 5 is answered 400 and issues no set; with rating 1 or 5 it passes
   validation and issues exactly one set, on a feedback key, and it is answered
   200 exactly when that set succeeded, the record then being in the store. *)
C7_RatingBounds ==
  \A r \in Req :
    /\ \A n \in {0, 6} :
         Rated(r, n) => /\ Done(r)
                        /\ reqs[r].status = 400
                        /\ ~Issued(r, {"set"})
                        /\ reqs[r].pend = NoOp
    /\ \A n \in {1, 5} :
         Rated(r, n) =>
           /\ reqs[r].pc \in {"store", "done"}
           /\ StartsWith(reqs[r].pend.key, FeedbackPrefix)
           /\ reqs[r].pend.value.f.rating = Num(n)
           /\ Done(r) =>
                /\ reqs[r].status \in {200, 500}
                /\ Len(reqs[r].calls) = 2
                /\ reqs[r].calls[2].op = "set"
                /\ reqs[r].calls[2].key = reqs[r].pend.key
                /\ reqs[r].status = 200 <=> reqs[r].calls[2].ok
                /\ reqs[r].status = 200 => reqs[r].pend.key \in DOMAIN kv

\* ratings 1 and 5 were stored and rating 6 was rejected
C7_Witness ==
  \E r1, r5, r6 \in Req :
    /\ Rated(r1, 1) /\ reqs[r1].status = 200
    /\ Rated(r5, 5) /\ reqs[r5].status = 200
    /\ Rated(r6, 6) /\ reqs[r6].status = 400
    /\ Cardinality(FeedbackKeys) = 2

-----------------------------------------------------------------------------
(* Signup *)

LowerChar(c) == CASE c = "A" -> "a" [] c = "C" -> "c" [] OTHER -> c

\* a string without regard to letter case
Lower(str) == [i \in 1..Len(str) |-> LowerChar(str[i])]

\* a signup whose body passed the handler's validation
ValidSignup(r) ==
  /\ reqs[r].ep = "signup"
  /\ reqs[r].body.t = "object"
  /\ \A n \in {"email", "password", "name", "role"} :
       Field(reqs[r].body, n).t = "string" /\ Field(reqs[r].body, n).s # <<>>
  /\ Len(Field(reqs[r].body, "password").s) >= 6

EmailOf(r) == Field(reqs[r].body, "email").s

\* every collaborator call the request made has answered
AllCallsOk(r) == \A i \in 1..Len(reqs[r].calls) : reqs[r].calls[i].ok

\* the identities the request created
CreatedBy(r) ==
  IF Done(r) /\ reqs[r].ep = "signup" /\ reqs[r].status = 200
  THEN {u \in identities : StrV(u.id) = Field(Field(reqs[r].data, "user"), "id")}
  ELSE {}

\* an identity that existed when the request arrived holds its email, whatever
\* the letter case
HeldBefore(r) ==
  \/ \E u \in {Identity1, Identity2} : u.email # <<>> /\ Lower(u.email) = Lower(EmailOf(r))
  \/ \E q \in Req : /\ <<q, r>> \in before
                    /\ \E u \in CreatedBy(q) : Lower(u.email) = Lower(EmailOf(r))

(* C5: a valid signup whose email no identity holds creates the identity, and a
   signup whose email an existing identity holds, compared without regard to
   letter case, is answered 400 and creates no identity (the provider's calls
   answering). *)
C5_DuplicateEmailAnyCase ==
  \A r \in Req :
    (Done(r) /\ ValidSignup(r) /\ AllCallsOk(r))
      => IF HeldBefore(r)
         THEN reqs[r].status = 400 /\ CreatedBy(r) = {}
         ELSE (\A u \in identities \ CreatedBy(r) :
                 Lower(u.email) # Lower(EmailOf(r)))
                => /\ reqs[r].status = 200
                   /\ \E u \in CreatedBy(r) : u.email = EmailOf(r)

\* a string password of fewer than 6 characters in a body that was read
ShortPassword(r) ==
  /\ reqs[r].ep = "signup"
  /\ reqs[r].body.t = "object"
  /\ Field(reqs[r].body, "password").t = "string"
  /\ Len(Field(reqs[r].body, "password").s) < 6

(* C6: a signup whose password has fewer than 6 characters is answered 400 and
   has called neither listUsers nor createUser (it has made no call at all). *)
C6_ShortPasswordNoProviderCall ==
  \A r \in Req :
    ShortPassword(r) => /\ Done(r)
                        /\ reqs[r].status = 400
                        /\ ~Issued(r, {"listUsers", "createUser"})
                        /\ reqs[r].calls = <<>>

\* a five-character password was rejected while another signup created an
\* identity
C6_Witness ==
  /\ \E r \in Req : /\ ShortPassword(r)
                    /\ Field(reqs[r].body, "password") = StrV(Password5)
                    /\ reqs[r].status = 400
                    /\ reqs[r].error = "Password must be at least 6 characters long"
  /\ \E q \in Req : CreatedBy(q) # {}

-----------------------------------------------------------------------------
(* Preferences *)

SaveEndpoints == {"saveUniversity", "saveLocation", "savePickupRoute"}

\* a save answered with success
Saved(r) == Done(r) /\ reqs[r].ep \in SaveEndpoints /\ reqs[r].status = 200

\* the save whose set is the last one on its key: every other request whose set
\* reached that key had been answered before this one arrived
LastSave(s) ==
  /\ Saved(s)
  /\ \A w \in Writers(reqs[s].pend.key) \ {s} : <<w, s>> \in before

\* a fetch answered with success for the user of s, that arrived after s was
\* answered
FetchAfter(p, s, e) ==
  /\ Done(p) /\ reqs[p].ep = e /\ reqs[p].status = 200
  /\ reqs[p].user = reqs[s].user
  /\ <<s, p>> \in before

(* C8: when a user's saves of one kind follow one another, a later fetch
   returns the value of the last save only: the latitude, longitude and address
   of the last save-location, the university_id of the last save-university,
   the route of the last save-pickup-route. *)
C8_LastSaveOnly ==
  \A s, p \in Req :
    LastSave(s) =>
      /\ (reqs[s].ep = "saveLocation" /\ FetchAfter(p, s, "getProfile"))
           => LET loc == Field(reqs[p].data, "location") IN
              /\ Field(loc, "latitude") = Field(reqs[s].body, "latitude")
              /\ Field(loc, "longitude") = Field(reqs[s].body, "longitude")
              /\ Field(loc, "address")
                   = OrElse(Field(reqs[s].body, "address"), Null)
              /\ loc = reqs[s].pend.value
      /\ (reqs[s].ep = "saveUniversity" /\ FetchAfter(p, s, "getProfile"))
           => Field(reqs[p].data, "university")
                = Field(reqs[s].body, "university_id")
      /\ (reqs[s].ep = "savePickupRoute" /\ FetchAfter(p, s, "getPickupRoute"))
           => Field(reqs[p].data, "pickup_route") = reqs[s].pend.value

\* a user saved a location, then another one, and then fetched the profile,
\* which shows the second and not the first
C8_Witness ==
  \E s1, s2, p \in Req :
    /\ Saved(s1) /\ reqs[s1].ep = "saveLocation" /\ reqs[s1].body = Location1
    /\ LastSave(s2) /\ reqs[s2].ep = "saveLocation" /\ reqs[s2].body = Location2
    /\ reqs[s1].user = reqs[s2].user
    /\ <<s1, s2>> \in before
    /\ FetchAfter(p, s2, "getProfile")
    /\ Field(Field(reqs[p].data, "location"), "latitude") = Num(3)
    /\ Field(reqs[p].data, "location") # reqs[s1].pend.value

(* C9: round trip.  The store holds under a key exactly the value of the last
   set on it; and a GET /user/pickup-route that follows a successful POST
   /user/pickup-route of the same user, with no other save of that user in
   between, returns a route with exactly the bus_id, pickup_latitude and
   pickup_longitude that were posted. *)
C9_PickupRouteRoundTrip ==
  \A s \in Req :
    (LastSave(s) /\ reqs[s].ep = "savePickupRoute") =>
      /\ KvGet(UserPrefix \o reqs[s].user.userId \o <<":">> \o KindPickupRoute)
           = reqs[s].pend.value
      /\ \A g \in Req :
           FetchAfter(g, s, "getPickupRoute") =>
             LET route == Field(reqs[g].data, "pickup_route") IN
             /\ route.t = "object"
             /\ DOMAIN route.f = {"bus_id", "pickup_latitude", "pickup_longitude",
                                  "created_at"}
             /\ route.f.bus_id = Field(reqs[s].body, "bus_id")
             /\ route.f.pickup_latitude = Field(reqs[s].body, "pickup_latitude")
             /\ route.f.pickup_longitude = Field(reqs[s].body, "pickup_longitude")

\* a route was posted and then fetched by the same user
C9_Witness ==
  \E s, g \in Req :
    /\ LastSave(s) /\ reqs[s].body = Pickup1
    /\ FetchAfter(g, s, "getPickupRoute")
    /\ Field(Field(reqs[g].data, "pickup_route"), "pickup_longitude") = Num(2)

\* the request's i-th call was a get that the store answered
GetAnswered(r, i) ==
  /\ Len(reqs[r].calls) >= i
  /\ reqs[r].calls[i].op = "get"
  /\ reqs[r].calls[i].ok

NeverSaved(r, kind) ==
  UserPrefix \o reqs[r].user.userId \o <<":">> \o kind \notin DOMAIN kv

(* C10: a missing record is an empty result and no error.  For an authenticated
   user with no pickup route in the store, GET /user/pickup-route whose get the
   store answered responds 200 with no error and an absent pickup_route; for a
   user with no university or location in the store, GET /user/profile whose
   gets the store answered responds 200 with no error and those fields absent. *)
C10_MissingRecordIsEmptyResult ==
  \A r \in Req :
    (Done(r) /\ reqs[r].user.ok) =>
      /\ (reqs[r].ep = "getPickupRoute" /\ NeverSaved(r, KindPickupRoute)
            /\ GetAnswered(r, 2))
           => /\ reqs[r].status = 200
              /\ reqs[r].error = ""
              /\ reqs[r].data.t = "object"
              /\ Field(reqs[r].data, "pickup_route") = Absent
      /\ (reqs[r].ep = "getProfile" /\ GetAnswered(r, 3) /\ GetAnswered(r, 4))
           => /\ reqs[r].status = 200
              /\ reqs[r].error = ""
              /\ NeverSaved(r, KindUniversity)
                   => Field(reqs[r].data, "university") = Absent
              /\ NeverSaved(r, KindLocation)
                   => Field(reqs[r].data, "location") = Absent

\* both fetches were answered 200 for users who had saved nothing
C10_Witness ==
  \E g, p \in Req :
    /\ Done(g) /\ reqs[g].ep = "getPickupRoute" /\ reqs[g].status = 200
    /\ NeverSaved(g, KindPickupRoute)
    /\ Done(p) /\ reqs[p].ep = "getProfile" /\ reqs[p].status = 200
    /\ NeverSaved(p, KindUniversity) /\ NeverSaved(p, KindLocation)
    /\ Field(reqs[p].data, "location") = Absent

-----------------------------------------------------------------------------
(* Health check *)

\* a request whose last collaborator call failed
LastCallFailed(r) ==
  Len(reqs[r].calls) > 0 /\ ~reqs[r].calls[Len(reqs[r].calls)].ok

(* C11: GET /health is answered 200 with {status: "ok"} in every state, and the
   request has made no call of the Record Store or of the identity provider,
   whatever the collaborators answer to the other requests. *)
C11_HealthAlwaysOk ==
  \A r \in Req :
    (reqs[r].ep = "health" /\ reqs[r].pc # "recv")
      => /\ Done(r)
         /\ reqs[r].status = 200
         /\ reqs[r].error = ""
         /\ reqs[r].data = Obj([status |-> StrV(<<"o", "k">>)])
         /\ reqs[r].calls = <<>>
         /\ reqs[r].pend = NoOp

\* the health check answered 200 to a request that arrived after another
\* request had ended 500 on a collaborator call that failed
C11_Witness ==
  \E h, f \in Req :
    /\ Done(h) /\ reqs[h].ep = "health" /\ reqs[h].status = 200
    /\ Done(f) /\ reqs[f].status = 500 /\ LastCallFailed(f)
    /\ <<f, h>> \in before

-----------------------------------------------------------------------------
(* Failures and the store *)

(* C13: a request answered 400 or 401, by any handler, has issued no set on the
   Record Store and has prepared none. *)
C13_RejectedBeforeStoreMutation ==
  \A r \in Req :
    (Done(r) /\ reqs[r].status \in {400, 401})
      => /\ ~Issued(r, {"set"})
         /\ reqs[r].pend = NoOp

\* an authenticated save was answered 400 and another request was answered 401,
\* the store staying empty
C13_Witness ==
  \E v, u \in Req :
    /\ Done(v) /\ reqs[v].ep = "saveUniversity" /\ reqs[v].user.ok
    /\ reqs[v].status = 400
    /\ Done(u) /\ reqs[u].ep \in Protected /\ reqs[u].status = 401
    /\ DOMAIN kv = {}

-----------------------------------------------------------------------------
(* The Token Verifier's failures *)

\* a protected request that verifyAuth answered with null
Unauthenticated(r) ==
  /\ Done(r) /\ reqs[r].ep \in Protected
  /\ ~reqs[r].user.ok
  /\ ~LastCallFailed(r)

(* C15: verifyAuth returns the same null for an absent header, a header without
   the 'Bearer ' prefix, a provider error and a provider answer with no user; a
   protected endpoint answers every such request with 401, and any two of them
   with the same message and no data. *)
C15_UniformUnauthorized ==
  /\ \A h \in Headers, out \in Outcomes \ {"throw"} :
       LET v == verifyAuth(h, out) IN
       /\ ~v.threw
       /\ (AbsentOrMalformed(h) \/ out \in {"error", "nodata"}) => v.user = NoUser
  /\ \A r1, r2 \in Req :
       (Unauthenticated(r1) /\ Unauthenticated(r2) /\ reqs[r1].ep = reqs[r2].ep)
         => /\ reqs[r1].status = 401
            /\ reqs[r1].error = reqs[r2].error
            /\ reqs[r1].data = reqs[r2].data

\* one endpoint answered 401 to a request without a header, which never reached
\* the provider, and to one whose token the provider was asked about
C15_Witness ==
  \E r1, r2 \in Req :
    /\ Unauthenticated(r1) /\ Unauthenticated(r2)
    /\ reqs[r1].ep = reqs[r2].ep
    /\ reqs[r1].hdr = HdrNone /\ reqs[r1].calls = <<>>
    /\ reqs[r2].hdr = HdrUnknown /\ reqs[r2].calls = <<Call("getUser", <<>>, TRUE)>>
    /\ reqs[r1].error = reqs[r2].error

-----------------------------------------------------------------------------
(* The handlers' steps *)

\* the positions of the request's calls of these operations
CallsOf(r, ops) == {i \in 1..Len(reqs[r].calls) : reqs[r].calls[i].op \in ops}

StoreOps(r) == CallsOf(r, {"set", "get", "scan"})

\* the handlers that have a Store-op state
StoreHandlers == SaveEndpoints \cup {"submitFeedback", "getProfile",
                                     "getPickupRoute", "driverFeedback"}

BodyHandlers == SaveEndpoints \cup {"submitFeedback"}

\* the handler has left its first state
PastFirstStep(r) == reqs[r].pc \notin {"idle", "recv"}

\* C18 as claimed: the body is parsed before the Token Verifier is called, so a
\* handler that has left its first state has parsed the body, and a request
\* whose body is not JSON has been rejected without the verifier being called.
C18_BodyParsedBeforeVerifier ==
  \A r \in Req :
    reqs[r].ep \in BodyHandlers =>
      /\ PastFirstStep(r) => reqs[r].body # Undef
      /\ reqs[r].body = Malformed => reqs[r].calls = <<>> /\ ~reqs[r].user.ok

(* C18, amended: a protected handler that reads a body passes through
   Authenticate, Receive, Validate, Store op, Respond in this order.  The body
   is parsed only after verifyAuth returned an identity; a request answered 401
   never had its body parsed; a set is prepared only from a body that was parsed
   and is the request's last call; and an authenticated request whose body is
   not JSON is answered 500 with an error string, having made no call but the
   verifier's. *)
C18_VerifierBeforeBody ==
  \A r \in Req :
    reqs[r].ep \in BodyHandlers =>
      LET c == reqs[r].calls IN
      /\ reqs[r].body # Undef =>
           reqs[r].user.ok /\ c # <<>> /\ c[1] = Call("getUser", <<>>, TRUE)
      /\ (Done(r) /\ reqs[r].status = 401) => reqs[r].body = Undef
      /\ reqs[r].pend # NoOp => reqs[r].body.t = "object"
      /\ Issued(r, {"set"}) =>
           /\ Done(r) /\ reqs[r].pend # NoOp
           /\ CallsOf(r, {"set"}) = {Len(c)}
      /\ reqs[r].body = Malformed =>
           /\ Done(r) /\ reqs[r].status = 500 /\ reqs[r].error # ""
           /\ c = <<Call("getUser", <<>>, TRUE)>>
           /\ reqs[r].pend = NoOp

\* a request with a valid token and a body that is not JSON was answered 500
\* after the verifier's call, and one without a token 401 with no body parsed
C18_Witness ==
  \E m, u \in Req :
    /\ Done(m) /\ reqs[m].ep \in BodyHandlers /\ reqs[m].body = Malformed
    /\ reqs[m].status = 500 /\ reqs[m].user.ok
    /\ Done(u) /\ reqs[u].ep \in BodyHandlers /\ reqs[u].status = 401
    /\ reqs[u].body = Undef

-----------------------------------------------------------------------------
(* Concurrent saves *)

\* request r's set reaches the store in this step
SetArrives(r) == reqs[r].pc = "store" /\ reqs'[r].pc = "done"

\* neither request had been answered when the other arrived
Concurrent(r1, r2) == <<r1, r2>> \notin before /\ <<r2, r1>> \notin before

\* a set that succeeds leaves exactly its request's value under its key and
\* changes no other key; no other step changes the store
SetsOverwrite ==
  /\ \A r \in Req :
       SetArrives(r) =>
         IF reqs'[r].status = 200
         THEN /\ DOMAIN kv' = DOMAIN kv \cup {reqs[r].pend.key}
              /\ kv'[reqs[r].pend.key] = reqs[r].pend.value
              /\ \A k \in DOMAIN kv \ {reqs[r].pend.key} : kv'[k] = kv[k]
         ELSE kv' = kv
  /\ kv' # kv => \E q \in Req : SetArrives(q)

(* C12: the store holds under each key the whole value of one request whose set
   on it succeeded; a set that succeeds leaves exactly its request's value
   under its key and changes no other key, whatever timestamp the value
   carries; and the store changes in no other step.  So after concurrent saves
   of one key the stored value is the value of the set that arrived last. *)
C12_LastArrivalWins ==
  /\ [](\A k \in DOMAIN kv : \E w \in Writers(k) : kv[k] = reqs[w].pend.value)
  /\ [][SetsOverwrite]_vars

\* two concurrent saves of one key were both answered with success; the store
\* holds the location of the one that took its timestamp first, so its set
\* arrived last
C12_Witness ==
  \E r1, r2 \in Req :
    /\ Saved(r1) /\ Saved(r2) /\ Concurrent(r1, r2)
    /\ reqs[r1].pend.key = reqs[r2].pend.key
    /\ reqs[r1].body = Location1 /\ reqs[r2].body = Location2
    /\ Newer(reqs[r2].pend.value, reqs[r1].pend.value)
    /\ kv[reqs[r1].pend.key] = reqs[r1].pend.value

-----------------------------------------------------------------------------
(* Termination *)

\* the request's last call ended without an answer: a call of getUser, of the
\* store, of listUsers or of getUserById that is the last one threw
LastCallThrew(r) ==
  /\ LastCallFailed(r)
  /\ \/ reqs[r].calls[Len(reqs[r].calls)].op \in {"getUser", "set", "get", "scan"}
     \/ /\ reqs[r].calls[Len(reqs[r].calls)].op \in {"listUsers", "getUserById"}
        /\ reqs[r].pc \notin {"create", "get1"}

\* a response, once sent, is never changed or sent again
RespondsOnce == \A r \in Req : Done(r) => reqs'[r] = reqs[r]

(* C14: every request that has arrived is eventually answered, and answered
   once; its status is 200, 400, 401 or 500, and an error response carries an
   error string and no data; a request whose body could not be parsed or whose
   collaborator call threw has been answered 500 with an error string at that
   very step. *)
C14_EveryRequestAnswered ==
  /\ [](\A r \in Req :
          /\ reqs[r].pc \in {"idle", "recv", "body", "store", "byid", "get1",
                             "get2", "get", "list", "create", "done"}
          /\ Done(r) =>
               /\ reqs[r].status \in {200, 400, 401, 500}
               /\ reqs[r].status # 200 => reqs[r].error # "" /\ reqs[r].data = Undef
               /\ reqs[r].status = 200 => reqs[r].error = "" /\ reqs[r].data # Undef
          /\ (BodyThrows(reqs[r].body) \/ LastCallThrew(r)) =>
               Done(r) /\ reqs[r].status = 500 /\ reqs[r].error # "")
  /\ [][RespondsOnce]_vars
  /\ \A r \in Req : (reqs[r].pc # "idle") ~> Done(r)

\* a signup whose body was not JSON, and a profile request whose third call
\* threw, were both answered 500
C14_Witness ==
  \E s, p \in Req :
    /\ Done(s) /\ reqs[s].ep = "signup" /\ reqs[s].body = Malformed
    /\ reqs[s].status = 500
    /\ Done(p) /\ reqs[p].ep = "getProfile" /\ Len(reqs[p].calls) = 3
    /\ LastCallThrew(p) /\ reqs[p].status = 500

-----------------------------------------------------------------------------
(* Verification on every request *)

\* the token of an Authorization header 'Bearer <token>', else the empty string
TokenOf(h) ==
  IF h.t = "string" /\ StartsWith(h.s, BearerPrefix)
  THEN SubSeq(h.s, Len(BearerPrefix) + 1, Len(h.s))
  ELSE <<>>

\* a protected request carrying a token the provider no longer accepts leaves
\* its first step answered 401 (500 when the provider's call throws), the
\* provider having been asked, whatever earlier requests obtained
RevokedTokenRejected ==
  \A r \in Req :
    (/\ reqs[r].ep \in Protected
     /\ reqs[r].pc = "recv" /\ reqs'[r].pc # "recv"
     /\ TokenOf(reqs'[r].hdr) \in revoked)
      => /\ reqs'[r].pc = "done"
         /\ ~reqs'[r].user.ok
         /\ Len(reqs'[r].calls) = 1 /\ reqs'[r].calls[1].op = "getUser"
         /\ reqs'[r].status = (IF reqs'[r].calls[1].ok THEN 401 ELSE 500)

(* C16: every protected request that carries a bearer token has asked the
   provider about it as its first call, before any Record Store operation, and
   only a request to which verifyAuth returned an identity reaches the store;
   no result is carried over: a request that carries a token the provider has
   stopped accepting is answered 401, even after requests with that token
   succeeded. *)
C16_VerifiedOnEveryRequest ==
  /\ [](\A r \in Req :
          reqs[r].ep \in Protected =>
            /\ (PastFirstStep(r) /\ TokenOf(reqs[r].hdr) # <<>>) =>
                 reqs[r].calls # <<>> /\ reqs[r].calls[1].op = "getUser"
            /\ (StoreOps(r) # {} \/ reqs[r].pend # NoOp) =>
                 /\ reqs[r].user.ok
                 /\ reqs[r].calls[1] = Call("getUser", <<>>, TRUE)
                 /\ 1 \notin StoreOps(r))
  /\ [][RevokedTokenRejected]_vars

\* a request with the token was answered 200; the token was revoked; a later
\* request with the same token was answered 401 after the provider was asked
C16_Witness ==
  \E r1, r2 \in Req :
    /\ Done(r1) /\ reqs[r1].hdr = HdrUser1 /\ reqs[r1].status = 200
    /\ reqs[r1].ep = "getPickupRoute"
    /\ <<r1, r2>> \in before
    /\ Token1 \in revoked
    /\ Done(r2) /\ reqs[r2].hdr = HdrUser1 /\ reqs[r2].status = 401
    /\ reqs[r2].ep = "getPickupRoute"
    /\ reqs[r2].calls = <<Call("getUser", <<>>, TRUE)>>

-----------------------------------------------------------------------------
(* Stored ratings and the public list *)

\* C19: every feedback record in the Record Store has a rating that is one of
\* the integers 1, 2, 3, 4, 5.
C19_StoredRatingsAreIntegers ==
  \A k \in FeedbackKeys :
    Field(kv[k], "rating") \in {Num(1), Num(2), Num(3), Num(4), Num(5)}

\* the request's scan was answered by the store
Scanned(g) ==
  /\ Done(g) /\ reqs[g].ep = "driverFeedback"
  /\ reqs[g].calls # <<>> /\ reqs[g].calls[Len(reqs[g].calls)].ok

\* the stored keys of the driver whose list g asked for
KeysOfScan(g) ==
  {k \in DOMAIN kv :
     StartsWith(k, FeedbackScanPrefix(Field(reqs[g].body, "driverId").s))}

EmptyList == Obj([feedback |-> [t |-> "array", items |-> {}]])

(* C20: GET /drivers/:driverId/feedback never asks the identity provider and
   never answers 401: it issues its scan whatever Authorization header the
   request carries and answers 200 when the store answers; two requests for one
   driver made after the same writes get the same answer, whatever their
   headers; and for a driver with no stored feedback the answer is 200 with an
   empty list. *)
C20_PublicFeedbackList ==
  /\ \A g \in Req :
       (reqs[g].ep = "driverFeedback" /\ PastFirstStep(g)) =>
         /\ Done(g)
         /\ ~reqs[g].user.ok
         /\ Len(reqs[g].calls) = 1 /\ reqs[g].calls[1].op = "scan"
         /\ reqs[g].status = (IF reqs[g].calls[1].ok THEN 200 ELSE 500)
         /\ (Scanned(g) /\ KeysOfScan(g) = {}) =>
              reqs[g].data = EmptyList /\ reqs[g].error = ""
  /\ \A g1, g2 \in Req :
       (/\ Scanned(g1) /\ Scanned(g2)
        /\ reqs[g1].body = reqs[g2].body
        /\ \A k \in KeysOfScan(g1) : \A w \in Writers(k) :
             <<w, g1>> \in before /\ <<w, g2>> \in before)
         => reqs[g1].data = reqs[g2].data

\* the list of a driver with no feedback was asked for without a header and with
\* a token the provider never issued, and both times the answer was 200 with an
\* empty list, the store holding another driver's feedback
C20_Witness ==
  \E g1, g2 \in Req :
    /\ Scanned(g1) /\ reqs[g1].hdr = HdrNone
    /\ Scanned(g2) /\ reqs[g2].hdr = HdrUnknown
    /\ reqs[g1].body = reqs[g2].body
    /\ reqs[g1].status = 200 /\ reqs[g2].status = 200
    /\ reqs[g1].data = EmptyList /\ reqs[g2].data = EmptyList
    /\ FeedbackKeys # {}

-----------------------------------------------------------------------------
(* Coordinates *)

\* an authenticated request of endpoint e whose body was read and has 0 in one
\* of the two fields
ZeroCoordinate(r, e, lat, lon) ==
  /\ reqs[r].ep = e /\ reqs[r].user.ok
  /\ reqs[r].body.t = "object"
  /\ Num(0) \in {Field(reqs[r].body, lat), Field(reqs[r].body, lon)}

(* C21: an authenticated save-location with latitude 0 or longitude 0, and an
   authenticated save-pickup-route with pickup_latitude 0 or pickup_longitude 0,
   is answered 400 and issues no set; no stored location or pickup route has a
   coordinate 0. *)
C21_ZeroCoordinateRejected ==
  /\ \A r \in Req :
       (\/ ZeroCoordinate(r, "saveLocation", "latitude", "longitude")
        \/ ZeroCoordinate(r, "savePickupRoute", "pickup_latitude",
                          "pickup_longitude"))
         => /\ Done(r) /\ reqs[r].status = 400
            /\ ~Issued(r, {"set"}) /\ reqs[r].pend = NoOp
  /\ \A k \in DOMAIN kv :
       Num(0) \notin {Field(kv[k], "latitude"), Field(kv[k], "longitude"),
                      Field(kv[k], "pickup_latitude"),
                      Field(kv[k], "pickup_longitude")}

\* the location (0,0) and a pickup route at longitude 0 were answered 400 while
\* another location was stored
C21_Witness ==
  \E z, p, s \in Req :
    /\ Done(z) /\ reqs[z].body = LocationZero /\ reqs[z].status = 400
    /\ Done(p) /\ reqs[p].body = PickupLonZero /\ reqs[p].status = 400
    /\ Saved(s) /\ reqs[s].body = Location1

-----------------------------------------------------------------------------
(* Collaborator failures *)

\* the Record Store's operations and the provider's other than getUser
FailFastOps == {"set", "get", "scan", "listUsers", "createUser", "getUserById"}

\* C22: a request one of whose calls of the Record Store, of listUsers, of
\* createUser or of getUserById failed has been answered 500 at once: the failed
\* call is its last call, and its status is 500, never 200 or 400.
C22_FailureAnswered500 ==
  \A r \in Req :
    \A i \in CallsOf(r, FailFastOps) :
      ~reqs[r].calls[i].ok
        => /\ i = Len(reqs[r].calls)
           /\ Done(r)
           /\ reqs[r].status = 500

-----------------------------------------------------------------------------
(* The author of a feedback record *)

\* the last segment of a key
LastSegment(k) == LET parts == Split(k, ":") IN parts[Len(parts)]

\* the identity the provider holds for the request's bearer token
SessionIdentity(r) ==
  CHOOSE u \in identities : u.id = Sessions[TokenOf(reqs[r].hdr)]

(* C23: every feedback record has been written by a request, and for every
   request whose set wrote its key, the record's user_id and user_email and the
   key's last segment are the id and email verifyAuth returned to that request,
   which are those of the identity of its bearer token, whatever the body
   carried. *)
C23_AuthorIsVerifiedCaller ==
  \A k \in FeedbackKeys :
    /\ Writers(k) # {}
    /\ \A w \in Writers(k) :
         /\ reqs[w].user.ok
         /\ TokenOf(reqs[w].hdr) \in DOMAIN Sessions
         /\ reqs[w].user.userId = SessionIdentity(w).id
         /\ reqs[w].user.email = SessionIdentity(w).email
         /\ Field(kv[k], "user_id") = StrV(reqs[w].user.userId)
         /\ Field(kv[k], "user_email") = StrV(reqs[w].user.email)
         /\ LastSegment(k) = reqs[w].user.userId

\* a submission whose body named another user was stored under its caller's id
C23_Witness ==
  \E w \in Req :
    /\ Done(w) /\ reqs[w].status = 200 /\ reqs[w].body = FeedbackForged
    /\ reqs[w].pend.key \in FeedbackKeys
    /\ Field(kv[reqs[w].pend.key], "user_id") = StrV(Id1)
    /\ Field(reqs[w].body, "user_id") = StrV(Id2)
    /\ kv[reqs[w].pend.key] = reqs[w].pend.value

-----------------------------------------------------------------------------
(* Frame *)

\* the kind a save endpoint writes
KindOf(e) ==
  CASE e = "saveUniversity" -> KindUniversity
    [] e = "saveLocation" -> KindLocation
    [] OTHER -> KindPickupRoute

ReadOnlyEndpoints == {"getProfile", "getPickupRoute", "driverFeedback",
                      "universities", "health", "signup"}

\* the request takes this step
Steps(r) == reqs'[r] # reqs[r]

\* a step of a read-only handler leaves the store as it is; a step of a save
\* handler changes at most the key user:<caller>:<its kind>, and changes it
\* only when its set succeeds
FrameOfStep ==
  \A r \in Req :
    Steps(r) =>
      /\ reqs[r].ep \in ReadOnlyEndpoints => kv' = kv
      /\ reqs[r].ep \in SaveEndpoints =>
           LET key == UserPrefix \o reqs'[r].user.userId \o <<":">>
                        \o KindOf(reqs[r].ep)
           IN /\ \A k \in DOMAIN kv \ {key} : k \in DOMAIN kv' /\ kv'[k] = kv[k]
              /\ DOMAIN kv' \subseteq DOMAIN kv \cup {key}
              /\ kv' # kv => /\ reqs'[r].status = 200
                             /\ reqs'[r].user.ok
                             /\ kv'[key] = reqs[r].pend.value

(* C24: a save of kind K by user U changes only the record at key user:U:K, and
   only when it succeeds: every other key keeps its value; and no step of GET
   /user/profile, GET /user/pickup-route, GET /drivers/:driverId/feedback, GET
   /universities, GET /health or POST /auth/signup changes the Record Store. *)
C24_Frame == [][FrameOfStep]_vars

\* a save succeeded and a feedback record was stored: the store holds the two
\* records, each the one its request wrote, the later set having left the
\* earlier record as it was
C24_Witness ==
  \E s, f \in Req :
    /\ Saved(s) /\ kv[reqs[s].pend.key] = reqs[s].pend.value
    /\ f \in Submitted /\ kv[reqs[f].pend.key] = reqs[f].pend.value
    /\ Cardinality(DOMAIN kv) = 2

-----------------------------------------------------------------------------
(* Concurrent signups *)

\* a signup whose body was read, with a string email, whose listUsers call the
\* provider answered
ListedSignup(r) ==
  /\ reqs[r].ep = "signup" /\ reqs[r].body.t = "object"
  /\ Field(reqs[r].body, "email").t = "string"
  /\ reqs[r].calls # <<>> /\ reqs[r].calls[1] = Call("listUsers", <<>>, TRUE)

\* C25: of the concurrent signups that carry one email (the provider answering
\* their listUsers calls), at most one has called createUser.
C25_OneCreateCallPerEmail ==
  \A r1, r2 \in Req :
    (/\ r1 # r2
     /\ ListedSignup(r1) /\ ListedSignup(r2)
     /\ EmailOf(r1) = EmailOf(r2)
     /\ Concurrent(r1, r2))
      => ~(Issued(r1, {"createUser"}) /\ Issued(r2, {"createUser"}))

-----------------------------------------------------------------------------
(* The browser's single client *)

\* the call has run its createClient()
PastCreateClient(t) == browser.calls[t].pc # "idle"

(* C26: createSupabaseClient has been called at most once; every createClient
   call has returned the one instance it built; supabaseInstance is null only
   while no call has been made, and holds that instance ever after, through
   getSession, getAccessToken, getCurrentUser and signOut. *)
C26_SingleClientInstance ==
  /\ browser.constructed <= 1
  /\ browser.instance = browser.constructed
  /\ browser.returned \subseteq {1}
  /\ (\E t \in BrowserCall : PastCreateClient(t)) =>
       /\ browser.instance = 1
       /\ browser.returned = {browser.instance}

\* the page signed out, then asked for the access token and got none, then
\* called createClient, which returned the first instance
C26_Witness ==
  /\ browser.calls[1] = [op |-> "signOut", pc |-> "done", result |-> "null"]
  /\ browser.calls[2] = [op |-> "getAccessToken", pc |-> "done", result |-> "null"]
  /\ browser.calls[3] = [op |-> "createClient", pc |-> "done", result |-> "instance"]
  /\ ~browser.session
  /\ browser.instance = 1 /\ browser.constructed = 1

=============================================================================
